---- MODULE Spec2Model ----
(***************************************************************************)
(* The allocation engine of the scheduling app: the Schedule container     *)
(* (src/src/models/schedule.py), the Assignment urgency score              *)
(* (src/src/models/assignment.py) and SmartScheduler.create_schedule       *)
(* (src/src/core/scheduler.py).                                            *)
(*                                                                         *)
(* A datetime is a number of seconds since midnight of day 0.  A float the *)
(* code computes is kept as an exact fraction: the efficiency score as the *)
(* pair <<numerator, denominator>>, a slot score by its numerator over a   *)
(* denominator common to all slots of one placement.                       *)
(*                                                                         *)
(* Init draws either a caller that drives one Schedule through add_block,  *)
(* remove_block and get_available_slots, or the arguments of one           *)
(* create_schedule call, which then runs method by method.                 *)
(***************************************************************************)
EXTENDS Integers, Sequences, FiniteSets, TLC

VARIABLES
    mode,               \* "api": a caller drives one Schedule; "run": create_schedule
    pc,                 \* position inside create_schedule
    assignments,        \* create_schedule's arguments
    work_shifts,
    class_schedule,
    start_date,
    days_ahead,
    now,                \* what datetime.now() returns during the run
    constraints,        \* SmartScheduler.constraints
    sorted_assignments, \* locals of create_schedule
    schedules,
    day,
    schedule,           \* the Schedule being operated on
    available_slots,    \* the free-slot list of the current day
    idx,                \* position of _schedule_assignments_for_day's loop
    last                \* what the last call did and returned

vars == << mode, pc, assignments, work_shifts, class_schedule, start_date,
           days_ahead, now, constraints, sorted_assignments, schedules, day,
           schedule, available_slots, idx, last >>

inputs == << mode, assignments, work_shifts, class_schedule, start_date,
             days_ahead, now, constraints >>

-----------------------------------------------------------------------------
(* Bounds of the model *)

MaxBlocks == 3      \* blocks a caller puts into one Schedule
MaxTasks == 2       \* length of the assignments argument
MaxDays == 2        \* largest days_ahead argument
MaxRanked == 2      \* length of the list handed to the ranker alone

-----------------------------------------------------------------------------
(* Time *)

SecondsPerMinute == 60
SecondsPerHour == 60 * SecondsPerMinute
SecondsPerDay == 24 * SecondsPerHour

At(d, h, m) == d * SecondsPerDay + h * SecondsPerHour + m * SecondsPerMinute

\* datetime.date(): the calendar day of a timestamp
DateOf(t) == t \div SecondsPerDay

\* datetime.hour
HourOf(t) == (t % SecondsPerDay) \div SecondsPerHour

\* datetime.combine(date, time)
Combine(d, tod) == d * SecondsPerDay + tod

\* timedelta.days: whole days, rounded toward minus infinity
DeltaDays(delta) == delta \div SecondsPerDay

Max(a, b) == IF a >= b THEN a ELSE b
Abs(a) == IF a >= 0 THEN a ELSE -a

-----------------------------------------------------------------------------
(* TimeBlock *)

BlockTypes == {"study", "break", "class", "work", "personal", "buffer"}

NoId == 0           \* assignment_id = None

Block(s, e, ty, fixed, aid) ==
    [start_time |-> s, end_time |-> e, block_type |-> ty,
     is_fixed |-> fixed, assignment_id |-> aid]

\* a validator that lets a block end where it starts
EndTimeNotBeforeStart(s, e) == e >= s

\* the validator of end_time: a TimeBlock exists only with end after start
EndTimeAfterStart(s, e) == e > s

\* int(delta.total_seconds() / 60)
DurationMinutes(b) == (b.end_time - b.start_time) \div SecondsPerMinute

\* overlaps_with that counts touching endpoints
OverlapsTouching(a, b) ==
    a.start_time <= b.end_time /\ a.end_time >= b.start_time

Overlaps(a, b) ==
    a.start_time < b.end_time /\ a.end_time > b.start_time

-----------------------------------------------------------------------------
(* Schedule *)

RECURSIVE SumDurations(_, _)
SumDurations(blocks, types) ==
    IF blocks = << >> THEN 0
    ELSE (IF Head(blocks).block_type \in types
             THEN DurationMinutes(Head(blocks)) ELSE 0)
         + SumDurations(Tail(blocks), types)

\* the float study / total, as the fraction <<study, total>>; 0.0 is <<0, 1>>
EfficiencyOf(study, total) ==
    IF total > 0 THEN << study, total >> ELSE << 0, 1 >>

\* _update_metrics without the else branch that resets the score
UpdateMetricsNoReset(s) ==
    LET study == SumDurations(s.time_blocks, {"study"})
        total == SumDurations(s.time_blocks, BlockTypes)
    IN [s EXCEPT !.total_study_time = study,
                 !.total_break_time = SumDurations(s.time_blocks, {"break"}),
                 !.efficiency_score = IF total > 0 THEN << study, total >>
                                      ELSE @]

\* Schedule._update_metrics
UpdateMetrics(s) ==
    LET study == SumDurations(s.time_blocks, {"study"})
        total == SumDurations(s.time_blocks, BlockTypes)
    IN [s EXCEPT !.total_study_time = study,
                 !.total_break_time = SumDurations(s.time_blocks, {"break"}),
                 !.efficiency_score = EfficiencyOf(study, total)]

\* Schedule(date=d)
NewSchedule(d) ==
    [date |-> d, time_blocks |-> << >>, total_study_time |-> 0,
     total_break_time |-> 0, efficiency_score |-> << 0, 1 >>]

\* _can_add_block that looks at the newest block only
CanAddBlockLastOnly(s, b) ==
    s.time_blocks = << >> \/ ~Overlaps(b, s.time_blocks[Len(s.time_blocks)])

\* Schedule._can_add_block
CanAddBlock(s, b) ==
    \A i \in DOMAIN s.time_blocks : ~Overlaps(b, s.time_blocks[i])

\* add_block without the call of _update_metrics
AddBlockNoMetrics(s, b) ==
    IF CanAddBlock(s, b)
    THEN [s EXCEPT !.time_blocks = Append(@, b)]
    ELSE s

\* Schedule.add_block: the container after the call; the call returns
\* CanAddBlock(s, b)
AddBlock(s, b) ==
    IF CanAddBlock(s, b)
    THEN UpdateMetrics([s EXCEPT !.time_blocks = Append(@, b)])
    ELSE s

RemoveAt(seq, i) == SubSeq(seq, 1, i - 1) \o SubSeq(seq, i + 1, Len(seq))

\* Schedule.remove_block, block_id counted from 0: the container after the
\* call; the call returns CanRemoveBlock(s, block_id)
CanRemoveBlock(s, block_id) == 0 <= block_id /\ block_id < Len(s.time_blocks)

RemoveBlock(s, block_id) ==
    IF CanRemoveBlock(s, block_id)
    THEN UpdateMetrics([s EXCEPT !.time_blocks = RemoveAt(@, block_id + 1)])
    ELSE s

\* sorted(blocks, key=lambda x: x.start_time): stable insertion
RECURSIVE InsertByStart(_, _)
InsertByStart(sortedSeq, b) ==
    IF sortedSeq = << >> THEN << b >>
    ELSE IF b.start_time < Head(sortedSeq).start_time
         THEN << b >> \o sortedSeq
         ELSE << Head(sortedSeq) >> \o InsertByStart(Tail(sortedSeq), b)

\* the blocks in container order, not sorted
SortByStartUnsorted(blocks) == blocks

RECURSIVE SortByStart(_)
SortByStart(blocks) ==
    IF blocks = << >> THEN << >>
    ELSE InsertByStart(SortByStart(SubSeq(blocks, 1, Len(blocks) - 1)),
                       blocks[Len(blocks)])

\* the loop of get_available_slots with the cursor left where it started
RECURSIVE WalkBlocksNoAdvance(_, _, _, _)
WalkBlocksNoAdvance(sortedSeq, cursor, slots, duration_minutes) ==
    IF sortedSeq = << >> THEN [cursor |-> cursor, slots |-> slots]
    ELSE LET block == Head(sortedSeq)
             emit == block.start_time - cursor
                         >= duration_minutes * SecondsPerMinute
         IN WalkBlocksNoAdvance(Tail(sortedSeq), cursor,
                       IF emit THEN Append(slots, << cursor, block.start_time >>)
                               ELSE slots,
                       duration_minutes)

\* the loop of get_available_slots over the sorted blocks: the state is
\* [cursor, slots]
RECURSIVE WalkBlocks(_, _, _, _)
WalkBlocks(sortedSeq, cursor, slots, duration_minutes) ==
    IF sortedSeq = << >> THEN [cursor |-> cursor, slots |-> slots]
    ELSE LET block == Head(sortedSeq)
             emit == block.start_time - cursor
                         >= duration_minutes * SecondsPerMinute
         IN WalkBlocks(Tail(sortedSeq), block.end_time,
                       IF emit THEN Append(slots, << cursor, block.start_time >>)
                               ELSE slots,
                       duration_minutes)

\* get_available_slots without the check after the last block
GetAvailableSlotsNoTail(s, duration_minutes, start_tod, end_tod) ==
    WalkBlocks(SortByStart(s.time_blocks),
               Combine(DateOf(s.date), start_tod), << >>,
               duration_minutes).slots

\* Schedule.get_available_slots
GetAvailableSlots(s, duration_minutes, start_tod, end_tod) ==
    LET start_dt == Combine(DateOf(s.date), start_tod)
        end_dt == Combine(DateOf(s.date), end_tod)
        w == WalkBlocks(SortByStart(s.time_blocks), start_dt, << >>,
                        duration_minutes)
    IN IF end_dt - w.cursor >= duration_minutes * SecondsPerMinute
       THEN Append(w.slots, << w.cursor, end_dt >>)
       ELSE w.slots

-----------------------------------------------------------------------------
(* Assignment *)

NoDue == -1         \* due_date = None

Priorities == {"low", "medium", "high", "urgent"}

Task(id, due, prio, est, prep, done) ==
    [id |-> id, due_date |-> due, priority |-> prio,
     estimated_duration |-> est, preparation_time |-> prep,
     is_completed |-> done]

\* Assignment.total_time_needed
TotalTimeNeeded(a) == a.estimated_duration + a.preparation_time

\* days_until_due without max(0, ...)
DaysUntilDueUnclamped(a, t) == DeltaDays(a.due_date - t)

\* Assignment.days_until_due, for a task that has a due date
DaysUntilDue(a, t) == Max(0, DeltaDays(a.due_date - t))

\* priority_scores / priority_order: the same numbers in both tables
PriorityOrder(p) ==
    CASE p = "low" -> 1 [] p = "medium" -> 2 [] p = "high" -> 3
      [] p = "urgent" -> 4

\* twice the time multiplier 3.0 / 2.0 / 1.5 / 1.0
TimeMultiplier2(days_left) ==
    IF days_left <= 3 THEN 6
    ELSE IF days_left <= 7 THEN 4
    ELSE IF days_left <= 14 THEN 3
    ELSE 2

\* twice Assignment.urgency_score (every score is a multiple of 0.5)
UrgencyScore2(a, t) ==
    IF a.due_date = NoDue THEN 0
    ELSE IF DaysUntilDue(a, t) = 0 THEN 20
    ELSE PriorityOrder(a.priority) * TimeMultiplier2(DaysUntilDue(a, t))

\* the comparison for the key (-urgency_score) alone
KeyLessUrgencyOnly(a, b, t) == UrgencyScore2(a, t) > UrgencyScore2(b, t)

\* sort_key(a) < sort_key(b) for the key (-urgency_score, -priority_order)
KeyLess(a, b, t) ==
    \/ UrgencyScore2(a, t) > UrgencyScore2(b, t)
    \/ /\ UrgencyScore2(a, t) = UrgencyScore2(b, t)
       /\ PriorityOrder(a.priority) > PriorityOrder(b.priority)

\* sorted(assignments, key=sort_key): stable insertion
RECURSIVE InsertByKey(_, _, _)
InsertByKey(sortedSeq, a, t) ==
    IF sortedSeq = << >> THEN << a >>
    ELSE IF KeyLess(a, Head(sortedSeq), t)
         THEN << a >> \o sortedSeq
         ELSE << Head(sortedSeq) >> \o InsertByKey(Tail(sortedSeq), a, t)

RECURSIVE SortAssignmentsByPriority(_, _)
SortAssignmentsByPriority(as, t) ==
    IF as = << >> THEN << >>
    ELSE InsertByKey(SortAssignmentsByPriority(SubSeq(as, 1, Len(as) - 1), t),
                     as[Len(as)], t)

-----------------------------------------------------------------------------
(* SmartScheduler *)

\* SmartScheduler._add_fixed_blocks, the loop over class_schedule
RECURSIVE AddClassBlocks(_, _, _)
AddClassBlocks(s, classes, date) ==
    IF classes = << >> THEN s
    ELSE AddClassBlocks(
             IF DateOf(Head(classes).start_time) = DateOf(date)
             THEN AddBlock(s, Head(classes)) ELSE s,
             Tail(classes), date)

\* SmartScheduler._add_fixed_blocks, the loop over work_shifts; building the
\* TimeBlock of a shift that does not end after its start raises
RECURSIVE AddWorkShifts(_, _, _)
AddWorkShifts(s, shifts, date) ==
    IF shifts = << >> THEN [raised |-> FALSE, schedule |-> s]
    ELSE LET sh == Head(shifts)
         IN IF DateOf(sh.start_time) # DateOf(date)
            THEN AddWorkShifts(s, Tail(shifts), date)
            ELSE IF ~EndTimeAfterStart(sh.start_time, sh.end_time)
            THEN [raised |-> TRUE, schedule |-> s]
            ELSE AddWorkShifts(
                     AddBlock(s, Block(sh.start_time, sh.end_time, "work",
                                       TRUE, NoId)),
                     Tail(shifts), date)

\* _add_fixed_blocks with the two loops in the other order
AddFixedBlocksShiftsFirst(s, classes, shifts, date) ==
    LET r == AddWorkShifts(s, shifts, date)
    IN [raised |-> r.raised,
        schedule |-> IF r.raised THEN r.schedule
                     ELSE AddClassBlocks(r.schedule, classes, date)]

\* SmartScheduler._add_fixed_blocks
AddFixedBlocks(s, classes, shifts, date) ==
    AddWorkShifts(AddClassBlocks(s, classes, date), shifts, date)

\* _can_schedule_assignment without its due-date checks
CanScheduleIgnoringDue(a, date) == ~a.is_completed

\* SmartScheduler._can_schedule_assignment
CanScheduleAssignment(a, date) ==
    /\ ~a.is_completed
    /\ ~(a.due_date # NoDue /\ DateOf(a.due_date) < DateOf(date))
    /\ ~(a.due_date # NoDue /\ DeltaDays(a.due_date - date) < 0)

\* five times SmartScheduler._calculate_time_preference_score
TimePreferenceScore5(t) ==
    IF 9 <= HourOf(t) /\ HourOf(t) < 12 THEN 5
    ELSE IF 12 <= HourOf(t) /\ HourOf(t) < 17 THEN 4
    ELSE IF 17 <= HourOf(t) /\ HourOf(t) < 22 THEN 3
    ELSE 1

SlotSeconds(slot) == slot[2] - slot[1]

\* slot_duration >= time_needed
SlotFits(slot, time_needed) ==
    SlotSeconds(slot) >= time_needed * SecondsPerMinute

\* total_score = fit_score * 0.6 + time_score * 0.4 of a slot, times
\* ScoreDen(time_needed):
\*   fit_score = 1 - abs(seconds / 60 - time_needed) / time_needed
\* The code computes the score in doubles; the numerator here is exact, and
\* the two agree wherever the doubles of two slots compare as the exact
\* scores do, which holds for every task and slot of the catalogs below.
ScoreDen(time_needed) == 1500 * time_needed

ScoreNum(slot, time_needed) ==
    900 * time_needed
    - 15 * Abs(SlotSeconds(slot) - time_needed * SecondsPerMinute)
    + 120 * time_needed * TimePreferenceScore5(slot[1])

NoSlot == << >>     \* best_slot = None

\* best_score = -1, times ScoreDen(time_needed)
InitialBestNum(time_needed) == -ScoreDen(time_needed)

\* the slot loop with >= in place of >
RECURSIVE ScanSlotsTakingLast(_, _, _)
ScanSlotsTakingLast(slots, time_needed, best) ==
    IF slots = << >> THEN best
    ELSE LET slot == Head(slots)
             better == SlotFits(slot, time_needed)
                       /\ ScoreNum(slot, time_needed) >= best.num
         IN ScanSlotsTakingLast(Tail(slots), time_needed,
                      IF better
                      THEN [slot |-> slot, num |-> ScoreNum(slot, time_needed)]
                      ELSE best)

\* the slot loop of _schedule_single_assignment, for time_needed > 0: the
\* state is [slot, num] for best_slot and best_score
RECURSIVE ScanSlots(_, _, _)
ScanSlots(slots, time_needed, best) ==
    IF slots = << >> THEN best
    ELSE LET slot == Head(slots)
             better == SlotFits(slot, time_needed)
                       /\ ScoreNum(slot, time_needed) > best.num
         IN ScanSlots(Tail(slots), time_needed,
                      IF better
                      THEN [slot |-> slot, num |-> ScoreNum(slot, time_needed)]
                      ELSE best)

\* best_slot after the loop
BestSlot(slots, time_needed) ==
    ScanSlots(slots, time_needed,
              [slot |-> NoSlot, num |-> InitialBestNum(time_needed)]).slot

\* list.remove(x): without the first element equal to x
RECURSIVE ListRemove(_, _)
ListRemove(seq, x) ==
    IF seq = << >> THEN << >>
    ELSE IF Head(seq) = x THEN Tail(seq)
    ELSE << Head(seq) >> \o ListRemove(Tail(seq), x)

\* a study block that takes the whole slot
StudyBlockWholeSlot(a, slot) ==
    Block(slot[1], slot[2], "study", FALSE, a.id)

\* the study block _schedule_single_assignment builds
StudyBlock(a, slot) ==
    Block(slot[1], slot[1] + TotalTimeNeeded(a) * SecondsPerMinute, "study",
          FALSE, a.id)

\* available_slots.pop(0) in place of available_slots.remove(best_slot)
SlotsAfterPlacementDropFirst(slots, best, added) ==
    IF added THEN Tail(slots) ELSE slots

\* available_slots after _schedule_single_assignment
SlotsAfterPlacement(slots, best, added) ==
    IF added THEN ListRemove(slots, best) ELSE slots

\* SmartScheduler._schedule_single_assignment.  With time_needed = 0 the
\* first fitting slot divides by zero; with time_needed < 0 the study block
\* ends before it starts and its construction raises.
ScheduleSingleAssignment(s, a, slots) ==
    LET n == TotalTimeNeeded(a)
    IN IF n <= 0
       THEN [raised |-> \E i \in DOMAIN slots : SlotFits(slots[i], n),
             schedule |-> s, slots |-> slots, best |-> NoSlot,
             added |-> FALSE]
       ELSE LET best == BestSlot(slots, n)
                added == best # NoSlot /\ CanAddBlock(s, StudyBlock(a, best))
            IN [raised |-> FALSE,
                schedule |-> IF best # NoSlot
                             THEN AddBlock(s, StudyBlock(a, best)) ELSE s,
                slots |-> SlotsAfterPlacement(slots, best, added),
                best |-> best,
                added |-> added]

\* Schedule.get_study_blocks
GetStudyBlocks(s) == SelectSeq(s.time_blocks, LAMBDA b : b.block_type = "study")

\* the loop of _add_breaks_and_optimize over the sorted study blocks
RECURSIVE AddBreaksFrom(_, _, _, _)
AddBreaksFrom(s, sorted_blocks, i, break_duration) ==
    IF i > Len(sorted_blocks) - 1 THEN [raised |-> FALSE, schedule |-> s]
    ELSE LET current_block == sorted_blocks[i]
             next_block == sorted_blocks[i + 1]
             break_start == current_block.end_time
             break_end == break_start + break_duration * SecondsPerMinute
         IN IF next_block.start_time - current_block.end_time
                   >= break_duration * SecondsPerMinute
            THEN IF ~EndTimeAfterStart(break_start, break_end)
                 THEN [raised |-> TRUE, schedule |-> s]
                 ELSE AddBreaksFrom(
                          AddBlock(s, Block(break_start, break_end, "break",
                                            FALSE, NoId)),
                          sorted_blocks, i + 1, break_duration)
            ELSE AddBreaksFrom(s, sorted_blocks, i + 1, break_duration)

\* _add_breaks_and_optimize taking the buffer time for the break duration
AddBreaksWithBufferTime(s, break_duration) ==
    IF Len(GetStudyBlocks(s)) < 2 THEN [raised |-> FALSE, schedule |-> s]
    ELSE AddBreaksFrom(s, SortByStart(GetStudyBlocks(s)), 1, 30)

\* SmartScheduler._add_breaks_and_optimize
AddBreaksAndOptimize(s, break_duration) ==
    IF Len(GetStudyBlocks(s)) < 2 THEN [raised |-> FALSE, schedule |-> s]
    ELSE AddBreaksFrom(s, SortByStart(GetStudyBlocks(s)), 1, break_duration)

-----------------------------------------------------------------------------
(* SchedulingConstraints *)

\* the defaults of the dataclass, times of day in seconds
DefaultConstraints ==
    [start_time |-> 9 * SecondsPerHour, end_time |-> 22 * SecondsPerHour,
     max_study_session |-> 120, min_study_session |-> 30,
     break_duration |-> 15, buffer_time |-> 30]

ConstraintChoices == {DefaultConstraints}

-----------------------------------------------------------------------------
(* The inputs the model draws from.  Day 1 is the first day of the horizon. *)

\* blocks a caller hands to add_block: touching, overlapping, shorter than a
\* minute, not a whole number of minutes, outside the daily window
ApiBlocks ==
    { Block(At(1, 9, 0), At(1, 10, 30), "study", FALSE, 1),
      Block(At(1, 10, 30), At(1, 10, 45), "break", FALSE, NoId),
      Block(At(1, 10, 0), At(1, 11, 0), "class", TRUE, NoId),
      Block(At(1, 11, 0), At(1, 11, 0) + 30, "personal", FALSE, NoId),
      Block(At(1, 7, 0), At(1, 8, 0), "work", TRUE, NoId),
      Block(At(1, 10, 45), At(1, 12, 15) + 30, "study", FALSE, 2),
      Block(At(1, 22, 30), At(1, 23, 0), "buffer", FALSE, NoId) }

\* start and end timestamps a caller hands to TimeBlock(...)
ApiSpans ==
    { << At(1, 12, 30), At(1, 13, 0) >>,
      << At(1, 12, 30), At(1, 12, 30) >>,
      << At(1, 13, 0), At(1, 12, 30) >> }

\* arguments a caller hands to get_available_slots
ApiQueries ==
    { [duration_minutes |-> 30, start_time |-> 9 * SecondsPerHour,
       end_time |-> 22 * SecondsPerHour],
      [duration_minutes |-> 60, start_time |-> 9 * SecondsPerHour,
       end_time |-> 17 * SecondsPerHour],
      [duration_minutes |-> 60, start_time |-> 9 * SecondsPerHour,
       end_time |-> 9 * SecondsPerHour + 30 * SecondsPerMinute] }

TaskCatalog ==
    { Task(1, At(3, 12, 0), "high", 60, 30, FALSE),
      Task(2, At(1, 10, 0), "medium", 45, 0, FALSE),
      Task(3, NoDue, "low", 60, 0, FALSE),
      Task(4, At(2, 12, 0), "urgent", 60, 0, TRUE),
      Task(5, At(0, 18, 0), "high", 30, 0, FALSE),
      Task(6, NoDue, "medium", 0, 0, FALSE),
      Task(7, NoDue, "low", 180, 0, FALSE) }

ClassCatalog ==
    << Block(At(1, 11, 0), At(1, 14, 0), "class", TRUE, NoId),
       Block(At(1, 15, 0), At(1, 22, 0), "class", TRUE, NoId),
       Block(At(1, 7, 0), At(1, 8, 0), "class", TRUE, NoId),
       Block(At(2, 10, 42), At(2, 14, 0), "class", FALSE, NoId) >>

ShiftCatalog ==
    << [start_time |-> At(1, 13, 0), end_time |-> At(1, 16, 0)],
       [start_time |-> At(2, 15, 30), end_time |-> At(2, 23, 30)] >>

StartDates == { At(1, 0, 0), At(1, 10, 30) }

NowChoices == { At(1, 8, 0) }

RECURSIVE Pick(_, _, _)
Pick(cat, S, i) ==
    IF i > Len(cat) THEN << >>
    ELSE (IF i \in S THEN << cat[i] >> ELSE << >>) \o Pick(cat, S, i + 1)

\* the lists that keep the catalog's order
SubLists(cat) == { Pick(cat, S, 1) : S \in SUBSET DOMAIN cat }

\* the lists of at most n different elements of S
ListsOf(S, n) ==
    { s \in UNION { [1..k -> S] : k \in 0..n } :
        \A i, j \in DOMAIN s : i # j => s[i] # s[j] }

-----------------------------------------------------------------------------
(* The state machine *)

Idle == [op |-> "none"]

Init ==
    /\ mode \in {"api", "run"}
    /\ pc = "start"
    /\ constraints \in ConstraintChoices
    /\ IF mode = "run"
       THEN /\ assignments \in ListsOf(TaskCatalog, MaxTasks)
            /\ class_schedule \in SubLists(ClassCatalog)
            /\ work_shifts \in SubLists(ShiftCatalog)
            /\ start_date \in StartDates
            /\ days_ahead \in -1..MaxDays
            /\ now \in NowChoices
       ELSE /\ assignments = << >>
            /\ class_schedule = << >>
            /\ work_shifts = << >>
            /\ start_date = At(1, 0, 0)
            /\ days_ahead = 0
            /\ now = At(1, 8, 0)
    /\ sorted_assignments = << >>
    /\ schedules = << >>
    /\ day = 0
    /\ schedule = NewSchedule(start_date)
    /\ available_slots = << >>
    /\ idx = 1
    /\ last = Idle

runLocals == << pc, sorted_assignments, schedules, day, idx >>

\* a caller's schedule.add_block(b)
ApiAddBlock(b) ==
    /\ mode = "api"
    /\ Len(schedule.time_blocks) < MaxBlocks \/ ~CanAddBlock(schedule, b)
    /\ schedule' = AddBlock(schedule, b)
    /\ last' = [op |-> "add_block", block |-> b, before |-> schedule,
                ret |-> CanAddBlock(schedule, b)]
    /\ UNCHANGED << inputs, runLocals, available_slots >>

\* a caller's TimeBlock(start_time=s, end_time=e, ...), handed to
\* schedule.add_block when the construction did not raise
ApiNewTimeBlock(s, e) ==
    /\ mode = "api"
    /\ LET b == Block(s, e, "personal", FALSE, NoId)
           built == EndTimeAfterStart(s, e)
       IN /\ built =>
                 Len(schedule.time_blocks) < MaxBlocks
                     \/ ~CanAddBlock(schedule, b)
          /\ schedule' = IF built THEN AddBlock(schedule, b) ELSE schedule
          /\ last' = [op |-> "TimeBlock", start_time |-> s, end_time |-> e,
                      raised |-> ~built,
                      ret |-> built /\ CanAddBlock(schedule, b)]
    /\ UNCHANGED << inputs, runLocals, available_slots >>

\* a caller's schedule.remove_block(block_id)
ApiRemoveBlock(block_id) ==
    /\ mode = "api"
    /\ schedule' = RemoveBlock(schedule, block_id)
    /\ last' = [op |-> "remove_block", block_id |-> block_id,
                before |-> schedule,
                ret |-> CanRemoveBlock(schedule, block_id)]
    /\ UNCHANGED << inputs, runLocals, available_slots >>

\* a caller's schedule.get_available_slots(...)
ApiGetAvailableSlots(q) ==
    /\ mode = "api"
    /\ last' = [op |-> "get_available_slots", query |-> q,
                ret |-> GetAvailableSlots(schedule, q.duration_minutes,
                                          q.start_time, q.end_time)]
    /\ UNCHANGED << inputs, runLocals, schedule, available_slots >>

\* current_date never advanced past the start date
CurrentDateStuck == start_date

\* current_date of the loop of create_schedule
CurrentDate == start_date + day * SecondsPerDay

\* available_assignments of _schedule_assignments_for_day
AvailableAssignments == SelectSeq(sorted_assignments, LAMBDA a : ~a.is_completed)

\* create_schedule sorting the caller's list in place
CreateScheduleSortingInPlace ==
    /\ mode = "run" /\ pc = "start"
    /\ sorted_assignments' = SortAssignmentsByPriority(assignments, now)
    /\ assignments' = sorted_assignments'
    /\ schedules' = << >>
    /\ day' = 0
    /\ pc' = IF days_ahead > 0 THEN "install" ELSE "done"
    /\ last' = [op |-> "create_schedule"]
    /\ UNCHANGED << mode, work_shifts, class_schedule, start_date,
                    days_ahead, now, constraints, schedule,
                    available_slots, idx >>

\* create_schedule up to the first day of its loop
CreateSchedule ==
    /\ mode = "run" /\ pc = "start"
    /\ sorted_assignments' = SortAssignmentsByPriority(assignments, now)
    /\ schedules' = << >>
    /\ day' = 0
    /\ pc' = IF days_ahead > 0 THEN "install" ELSE "done"
    /\ last' = [op |-> "create_schedule"]
    /\ UNCHANGED << inputs, schedule, available_slots, idx >>

\* the installer working on the container of the day before
InstallFixedBlocksReusingContainer ==
    /\ mode = "run" /\ pc = "install"
    /\ LET r == AddFixedBlocks([schedule EXCEPT !.date = CurrentDate],
                               class_schedule, work_shifts, CurrentDate)
       IN /\ schedule' = r.schedule
          /\ pc' = IF r.raised THEN "raised" ELSE "slots"
    /\ available_slots' = << >>
    /\ last' = [op |-> "add_fixed_blocks"]
    /\ UNCHANGED << inputs, sorted_assignments, schedules, day, idx >>

\* schedule = Schedule(date=current_date); self._add_fixed_blocks(...)
InstallFixedBlocks ==
    /\ mode = "run" /\ pc = "install"
    /\ LET r == AddFixedBlocks(NewSchedule(CurrentDate), class_schedule,
                               work_shifts, CurrentDate)
       IN /\ schedule' = r.schedule
          /\ pc' = IF r.raised THEN "raised" ELSE "slots"
    /\ available_slots' = << >>
    /\ last' = [op |-> "add_fixed_blocks"]
    /\ UNCHANGED << inputs, sorted_assignments, schedules, day, idx >>

\* _schedule_assignments_for_day up to its loop
FindSlots ==
    /\ mode = "run" /\ pc = "slots"
    /\ LET slots == IF AvailableAssignments = << >> THEN << >>
                    ELSE GetAvailableSlots(schedule,
                                           constraints.min_study_session,
                                           constraints.start_time,
                                           constraints.end_time)
       IN /\ available_slots' = slots
          /\ pc' = IF slots = << >> THEN "breaks" ELSE "place"
    /\ idx' = 1
    /\ last' = IF AvailableAssignments = << >>
               THEN [op |-> "no_available_assignments"]
               ELSE [op |-> "get_available_slots",
                     query |-> [duration_minutes |->
                                    constraints.min_study_session,
                                start_time |-> constraints.start_time,
                                end_time |-> constraints.end_time],
                     ret |-> available_slots']
    /\ UNCHANGED << inputs, sorted_assignments, schedules, day, schedule >>

\* one turn of the loop of _schedule_assignments_for_day
PlaceAssignment ==
    /\ mode = "run" /\ pc = "place"
    /\ LET a == AvailableAssignments[idx]
           eligible == CanScheduleAssignment(a, CurrentDate)
           r == ScheduleSingleAssignment(schedule, a, available_slots)
           more == idx < Len(AvailableAssignments)
       IN IF eligible
          THEN /\ schedule' = r.schedule
               /\ available_slots' = r.slots
               /\ pc' = IF r.raised THEN "raised"
                        ELSE IF more THEN "place" ELSE "breaks"
               /\ last' = [op |-> "place", task |-> a, eligible |-> TRUE,
                           slots_before |-> available_slots,
                           best |-> r.best, added |-> r.added,
                           raised |-> r.raised]
          ELSE /\ UNCHANGED << schedule, available_slots >>
               /\ pc' = IF more THEN "place" ELSE "breaks"
               /\ last' = [op |-> "place", task |-> a, eligible |-> FALSE,
                           slots_before |-> available_slots,
                           best |-> NoSlot, added |-> FALSE,
                           raised |-> FALSE]
    /\ idx' = idx + 1
    /\ UNCHANGED << inputs, sorted_assignments, schedules, day >>

\* self._add_breaks_and_optimize(schedule); schedules.append(schedule);
\* current_date += timedelta(days=1)
AddBreaks ==
    /\ mode = "run" /\ pc = "breaks"
    /\ LET r == AddBreaksAndOptimize(schedule, constraints.break_duration)
       IN /\ schedule' = r.schedule
          /\ IF r.raised
             THEN /\ pc' = "raised"
                  /\ UNCHANGED << schedules, day >>
             ELSE /\ schedules' = Append(schedules, r.schedule)
                  /\ day' = day + 1
                  /\ pc' = IF day + 1 < days_ahead THEN "install" ELSE "done"
    /\ last' = [op |-> "add_breaks"]
    /\ UNCHANGED << inputs, sorted_assignments, available_slots, idx >>

Next ==
    \/ \E b \in ApiBlocks : ApiAddBlock(b)
    \/ \E sp \in ApiSpans : ApiNewTimeBlock(sp[1], sp[2])
    \/ \E i \in -1..MaxBlocks : ApiRemoveBlock(i)
    \/ \E q \in ApiQueries : ApiGetAvailableSlots(q)
    \/ CreateSchedule
    \/ InstallFixedBlocks
    \/ FindSlots
    \/ PlaceAssignment
    \/ AddBreaks

Spec == Init /\ [][Next]_vars

-----------------------------------------------------------------------------
(* The ranker and the urgency score on their own *)

\* due dates seen from now = 08:00 of day 1: none, overdue, 23 h 59 min,
\* 1 day, 3.5 days, 4, 7, 8, 14 and 15 days ahead
RankDues ==
    << NoDue, At(0, 18, 0), At(2, 7, 59), At(2, 8, 0), At(4, 20, 0),
       At(5, 8, 0), At(8, 8, 0), At(9, 8, 0), At(15, 8, 0), At(16, 8, 0) >>

RankCatalog ==
    { Task(4 * (i - 1) + PriorityOrder(p), RankDues[i], p, 60, 0, FALSE) :
          i \in DOMAIN RankDues, p \in Priorities }

InitRank ==
    /\ mode = "rank"
    /\ pc = "start"
    /\ constraints \in ConstraintChoices
    /\ assignments \in ListsOf(RankCatalog, MaxRanked)
    /\ class_schedule = << >>
    /\ work_shifts = << >>
    /\ start_date = At(1, 0, 0)
    /\ days_ahead = 0
    /\ now \in NowChoices
    /\ sorted_assignments = << >>
    /\ schedules = << >>
    /\ day = 0
    /\ schedule = NewSchedule(start_date)
    /\ available_slots = << >>
    /\ idx = 1
    /\ last = Idle

\* a caller's assignments[i].urgency_score
ReadUrgencyScore(i) ==
    /\ mode = "rank"
    /\ i \in DOMAIN assignments
    /\ last' = [op |-> "urgency_score", task |-> assignments[i],
                ret2 |-> UrgencyScore2(assignments[i], now)]
    /\ UNCHANGED << inputs, runLocals, schedule, available_slots >>

\* a call of _sort_assignments_by_priority(assignments)
RankAssignments ==
    /\ mode = "rank" /\ pc = "start"
    /\ sorted_assignments' = SortAssignmentsByPriority(assignments, now)
    /\ pc' = "done"
    /\ last' = [op |-> "sort_assignments_by_priority"]
    /\ UNCHANGED << inputs, schedules, day, idx, schedule, available_slots >>

NextRank ==
    \/ \E i \in 1..MaxRanked : ReadUrgencyScore(i)
    \/ RankAssignments

SpecRank == InitRank /\ [][NextRank]_vars

-----------------------------------------------------------------------------
(* Properties *)

Blocks(s) == { s.time_blocks[i] : i \in DOMAIN s.time_blocks }

\* every container there is: the one being operated on and the finished days
AllSchedules == { schedule } \cup { schedules[i] : i \in DOMAIN schedules }

RECURSIVE MinutesOf(_, _)
MinutesOf(s, types) ==
    IF s = {} THEN 0
    ELSE LET b == CHOOSE x \in s : TRUE
         IN (IF b.block_type \in types
             THEN (b.end_time - b.start_time) \div 60 ELSE 0)
            + MinutesOf(s \ {b}, types)

\* C1: in every container, after any sequence of add_block and remove_block
\* calls and on every day of create_schedule, no two distinct blocks overlap.
C1_NoOverlap ==
    \A s \in AllSchedules :
        \A i, j \in DOMAIN s.time_blocks :
            i # j => ~(/\ s.time_blocks[i].start_time < s.time_blocks[j].end_time
                       /\ s.time_blocks[i].end_time > s.time_blocks[j].start_time)

\* a caller's add_block was refused by a container that holds several blocks,
\* the newest of which the refused block does not overlap
C1_Witness ==
    /\ mode = "api"
    /\ last.op = "add_block" /\ ~last.ret
    /\ Len(schedule.time_blocks) >= 2
    /\ last.block.start_time
           >= schedule.time_blocks[Len(schedule.time_blocks)].end_time

\* C2: whenever add_block or remove_block has returned, the cached metrics
\* are the ones derived from the block list: study minutes, break minutes,
\* and efficiency = study / total minutes, or 0 when the total is 0.
C2_MetricsDerived ==
    \A s \in AllSchedules :
        LET study == MinutesOf(Blocks(s), {"study"})
            total == MinutesOf(Blocks(s), BlockTypes)
        IN /\ s.total_study_time = study
           /\ s.total_break_time = MinutesOf(Blocks(s), {"break"})
           /\ s.efficiency_score[2] > 0
           /\ IF total = 0 THEN s.efficiency_score[1] = 0
              ELSE s.efficiency_score[1] * total = study * s.efficiency_score[2]

\* remove_block took a block out of a container that still holds a study
\* block and another block, so every metric had to change or stay right
C2_Witness ==
    /\ mode = "api"
    /\ last.op = "remove_block" /\ last.ret
    /\ last.before.total_study_time > schedule.total_study_time
    /\ schedule.total_study_time > 0
    /\ schedule.total_break_time > 0

\* C3: the efficiency score is within [0, 1] in every container, and is 0
\* whenever the block list is empty.
C3_EfficiencyRange ==
    \A s \in AllSchedules :
        /\ s.efficiency_score[2] > 0
        /\ 0 <= s.efficiency_score[1]
        /\ s.efficiency_score[1] <= s.efficiency_score[2]
        /\ s.time_blocks = << >> => s.efficiency_score[1] = 0

\* the last block, a study block (efficiency 1), has just been removed
C3_Witness ==
    /\ mode = "api"
    /\ last.op = "remove_block" /\ last.ret
    /\ schedule.time_blocks = << >>
    /\ last.before.efficiency_score[1] = last.before.efficiency_score[2]

\* C4: add_block(b) returns False exactly when b strictly overlaps a block of
\* the container, and then changes neither the block list nor the metrics; a
\* block that only touches an existing block is accepted and appended.
C4_AddBlockContract ==
    last.op = "add_block" =>
        LET b == last.block
            old == last.before.time_blocks
            overlapping ==
                \E i \in DOMAIN old : /\ b.start_time < old[i].end_time
                                      /\ b.end_time > old[i].start_time
        IN /\ last.ret = ~overlapping
           /\ ~last.ret => schedule = last.before
           /\ last.ret => schedule.time_blocks = Append(old, b)

\* a block that starts where an existing block ends has been accepted
C4_Witness ==
    /\ last.op = "add_block" /\ last.ret
    /\ \E i \in DOMAIN last.before.time_blocks :
           last.before.time_blocks[i].end_time = last.block.start_time

\* C5: on no day of the horizon does a container hold a study block of a
\* task that is completed or whose due date is on an earlier calendar day.
C5_NoIneligibleStudy ==
    mode = "run" =>
        \A s \in AllSchedules : \A b \in Blocks(s) :
            b.block_type = "study" =>
                \A i \in DOMAIN assignments :
                    assignments[i].id = b.assignment_id =>
                        /\ ~assignments[i].is_completed
                        /\ \/ assignments[i].due_date = NoDue
                           \/ assignments[i].due_date \div SecondsPerDay
                                  >= s.date \div SecondsPerDay

\* a task due on an earlier day was passed over although a free slot of the
\* day is long enough for it
C5_Witness ==
    /\ last.op = "place" /\ ~last.eligible
    /\ last.task.due_date # NoDue
    /\ last.task.due_date \div SecondsPerDay < CurrentDate \div SecondsPerDay
    /\ \E i \in DOMAIN last.slots_before :
           last.slots_before[i][2] - last.slots_before[i][1]
               >= 60 * (last.task.estimated_duration
                        + last.task.preparation_time)

\* C6 (as the specification states it): whenever a free slot of the current
\* list is long enough for an eligible task, a slot is selected for it.
C6_FittingSlotIsSelected ==
    (last.op = "place" /\ last.eligible /\ ~last.raised) =>
        ((\E i \in DOMAIN last.slots_before :
              last.slots_before[i][2] - last.slots_before[i][1]
                  >= 60 * (last.task.estimated_duration
                           + last.task.preparation_time))
         => last.best # NoSlot)

\* 1500 * time_needed * (0.6 * fitScore + 0.4 * timeScore), from the
\* specification's formulas, for a slot of at least time_needed minutes
C7_Score(slot, n) ==
    LET hour == (slot[1] % 86400) \div 3600
        time5 == IF hour \in 9..11 THEN 5
                 ELSE IF hour \in 12..16 THEN 4
                 ELSE IF hour \in 17..21 THEN 3
                 ELSE 1
    IN 900 * n - 15 * ((slot[2] - slot[1]) - 60 * n) + 120 * n * time5

\* C7: a selected slot has the highest score among the free slots that are
\* long enough, and is the first of the list among those of highest score.
C7_SelectedIsFirstBest ==
    (last.op = "place" /\ last.best # NoSlot) =>
        LET n == last.task.estimated_duration + last.task.preparation_time
            slots == last.slots_before
            fits == { i \in DOMAIN slots : slots[i][2] - slots[i][1] >= 60 * n }
        IN \E k \in fits :
               /\ slots[k] = last.best
               /\ \A i \in fits : C7_Score(slots[i], n) <= C7_Score(slots[k], n)
               /\ \A i \in fits :
                      C7_Score(slots[i], n) = C7_Score(slots[k], n) => i >= k

\* a slot was selected while a later slot of the list has the same score
C7_Witness ==
    /\ last.op = "place" /\ last.best # NoSlot
    /\ LET n == last.task.estimated_duration + last.task.preparation_time
           slots == last.slots_before
       IN \E i, k \in DOMAIN slots :
              /\ slots[k] = last.best /\ i > k
              /\ slots[i][2] - slots[i][1] >= 60 * n
              /\ C7_Score(slots[i], n) = C7_Score(slots[k], n)

\* C8: a committed study block starts at the start of the selected slot,
\* lasts the task's effort plus preparation, and ends within the slot.
C8_StudyBlockSpan ==
    (last.op = "place" /\ last.added) =>
        LET b == schedule.time_blocks[Len(schedule.time_blocks)]
        IN /\ b.block_type = "study"
           /\ b.assignment_id = last.task.id
           /\ b.start_time = last.best[1]
           /\ b.end_time - b.start_time
                  = 60 * (last.task.estimated_duration
                          + last.task.preparation_time)
           /\ b.end_time <= last.best[2]

\* the 90-minute task, offered (09:00,11:00) and (14:00,15:00), has the
\* study block (09:00,10:30)
C8_Witness ==
    /\ last.op = "place" /\ last.added
    /\ last.task.estimated_duration + last.task.preparation_time = 90
    /\ last.slots_before = << << At(1, 9, 0), At(1, 11, 0) >>,
                              << At(1, 14, 0), At(1, 15, 0) >> >>
    /\ LET b == schedule.time_blocks[Len(schedule.time_blocks)]
       IN b.start_time = At(1, 9, 0) /\ b.end_time = At(1, 10, 30)

\* the study blocks of the current day, and the day's first free-slot list
\* (the placer adds nothing but study blocks)
C9_StudyBlocks == { b \in Blocks(schedule) : b.block_type = "study" }

C9_InitialSlots ==
    GetAvailableSlots(
        [schedule EXCEPT !.time_blocks =
             SelectSeq(@, LAMBDA b : b.block_type # "study")],
        constraints.min_study_session, constraints.start_time,
        constraints.end_time)

\* C9: a successful placement removes the selected slot, whole, and nothing
\* else from the free-slot list; any other placement leaves the list as it
\* was; so a slot of the day's first list holds at most one study block and
\* a day has no more study blocks than it had free slots.
C9_SlotConsumed ==
    /\ last.op = "place" =>
           IF last.added
           THEN \E k \in DOMAIN last.slots_before :
                    /\ last.slots_before[k] = last.best
                    /\ available_slots
                           = SubSeq(last.slots_before, 1, k - 1)
                             \o SubSeq(last.slots_before, k + 1,
                                       Len(last.slots_before))
           ELSE available_slots = last.slots_before
    /\ (mode = "run" /\ pc \in {"place", "breaks"}) =>
           /\ \A i \in DOMAIN C9_InitialSlots :
                  Cardinality({ b \in C9_StudyBlocks :
                                  /\ C9_InitialSlots[i][1] <= b.start_time
                                  /\ b.end_time <= C9_InitialSlots[i][2] }) <= 1
           /\ Cardinality(C9_StudyBlocks) <= Len(C9_InitialSlots)

\* a placement consumed a slot that is not the first of the list and that
\* the study block does not fill
C9_Witness ==
    /\ last.op = "place" /\ last.added
    /\ Len(last.slots_before) >= 2
    /\ last.best # last.slots_before[1]
    /\ schedule.time_blocks[Len(schedule.time_blocks)].end_time < last.best[2]

\* C10 (as the specification states it): every slot get_available_slots
\* returns lies within the daily window on the container's date.
C10_SlotsInsideWindow ==
    last.op = "get_available_slots" =>
        \A i \in DOMAIN last.ret :
            /\ (schedule.date \div SecondsPerDay) * SecondsPerDay
                   + last.query.start_time <= last.ret[i][1]
            /\ last.ret[i][2]
                   <= (schedule.date \div SecondsPerDay) * SecondsPerDay
                      + last.query.end_time

\* the call of get_available_slots recorded in last: its window and the
\* blocks of the container it was made on
SlotCall == last.op = "get_available_slots"
WindowStart == Combine(DateOf(schedule.date), last.query.start_time)
WindowEnd == Combine(DateOf(schedule.date), last.query.end_time)
MinSeconds == last.query.duration_minutes * SecondsPerMinute
SlotOverlapsBlock(slot, b) == slot[1] < b.end_time /\ slot[2] > b.start_time

\* C11: every free slot returned by get_available_slots on a container with
\* pairwise non-overlapping blocks is disjoint from every block of the
\* container and is at least the requested minimum duration long.
C11_SlotsFreeAndLongEnough ==
    SlotCall /\ C1_NoOverlap =>
        \A i \in 1..Len(last.ret) :
            /\ \A b \in Blocks(schedule) : ~SlotOverlapsBlock(last.ret[i], b)
            /\ last.ret[i][2] - last.ret[i][1] >= MinSeconds

\* a call on a container of two or more blocks that returned a slot lying
\* between two of them
C11_Witness ==
    /\ SlotCall
    /\ Len(schedule.time_blocks) >= 2
    /\ \E i \in 1..Len(last.ret) : \E a, b \in Blocks(schedule) :
           a.end_time = last.ret[i][1] /\ b.start_time = last.ret[i][2]

\* the cursor of the walk of get_available_slots after its first k blocks
CursorAfter(k) ==
    WalkBlocks(SubSeq(SortByStart(schedule.time_blocks), 1, k),
               WindowStart, << >>, last.query.duration_minutes).cursor

\* C12: during the walk over the blocks sorted by start time the cursor
\* never moves backward: after each block it is >= its value before that
\* block, starting from the window start.
C12_CursorNeverBackward ==
    SlotCall =>
        \A k \in 1..Len(schedule.time_blocks) :
            CursorAfter(k) >= CursorAfter(k - 1)

\* C13: on a container with no blocks get_available_slots returns exactly
\* the whole window when the window is at least the minimum duration long,
\* and an empty list when the window is shorter.
C13_EmptyContainer ==
    SlotCall /\ schedule.time_blocks = << >> =>
        IF WindowEnd - WindowStart >= MinSeconds
        THEN last.ret = << << WindowStart, WindowEnd >> >>
        ELSE last.ret = << >>

\* the window 09:00-22:00 with minimum 30 on an empty container
C13_Witness ==
    /\ SlotCall
    /\ schedule.time_blocks = << >>
    /\ last.query.duration_minutes = 30
    /\ last.ret = << << Combine(DateOf(schedule.date), 9 * SecondsPerHour),
                        Combine(DateOf(schedule.date), 22 * SecondsPerHour) >> >>

\* a window shorter than the minimum duration on an empty container
C13_ShortWindowReached ==
    /\ SlotCall
    /\ schedule.time_blocks = << >>
    /\ WindowEnd - WindowStart < MinSeconds
    /\ last.ret = << >>

StudyOf(s) == { b \in Blocks(s) : b.block_type = "study" }
BreaksOf(s) == { b \in Blocks(s) : b.block_type = "break" }
AdjacentStudy(s, a, n) ==
    /\ a \in StudyOf(s) /\ n \in StudyOf(s)
    /\ a.start_time < n.start_time
    /\ ~\E c \in StudyOf(s) :
           a.start_time < c.start_time /\ c.start_time < n.start_time
BreakSeconds == constraints.break_duration * SecondsPerMinute

\* C15: after the break inserter has run on a day, for every pair of study
\* blocks adjacent in start-time order whose gap is >= the break duration the
\* container holds a break block that starts at the first block's end and
\* lasts exactly the break duration.
C15_BreakAfterEveryGap ==
    last.op = "add_breaks" /\ pc # "raised" =>
        \A a, n \in StudyOf(schedule) :
            AdjacentStudy(schedule, a, n)
              /\ n.start_time - a.end_time >= BreakSeconds
            => \E b \in BreaksOf(schedule) :
                   /\ b.start_time = a.end_time
                   /\ b.end_time - b.start_time = BreakSeconds

ReturnedContainers ==
    mode = "run" /\ pc = "done" =>
        /\ Len(schedules) = Max(days_ahead, 0)
        /\ \A i \in DOMAIN schedules :
               schedules[i].date = start_date + (i - 1) * SecondsPerDay

\* the ranking changes in no step after the one that computed it
RankingKept == pc # "start" => sorted_assignments' = sorted_assignments

\* C17: create_schedule returns exactly days_ahead containers (none when
\* days_ahead <= 0), in order, the i-th dated start_date + i days, and the
\* ranking of the tasks is computed once before the first day and is the
\* same on every day.
C17_ContainersAndRanking == [](ReturnedContainers) /\ [][RankingKept]_vars

\* a finished two-day horizon whose ranking reordered the caller's tasks
C17_Witness ==
    /\ mode = "run" /\ pc = "done"
    /\ days_ahead = 2 /\ Len(schedules) = 2
    /\ schedules[2].date = start_date + SecondsPerDay
    /\ Len(sorted_assignments) = 2
    /\ sorted_assignments # assignments

\* no container is returned for a negative days_ahead
C17_NegativeDaysReached ==
    mode = "run" /\ pc = "done" /\ days_ahead < 0 /\ schedules = << >>

\* the task of the last placement has a study block on the day before, a
\* slot of the list offered to it is long enough, it is scored above the
\* initial best score of the slot loop
PlacedOnDayBefore ==
    /\ Len(schedules) > 0
    /\ \E b \in StudyOf(schedules[Len(schedules)]) :
           b.assignment_id = last.task.id
LastTimeNeeded == last.task.estimated_duration + last.task.preparation_time
SomeSlotFits ==
    \E i \in DOMAIN last.slots_before :
        last.slots_before[i][2] - last.slots_before[i][1]
            >= LastTimeNeeded * SecondsPerMinute
SomeFittingSlotAboveInitialBest ==
    \E i \in DOMAIN last.slots_before :
        /\ last.slots_before[i][2] - last.slots_before[i][1]
               >= LastTimeNeeded * SecondsPerMinute
        /\ C7_Score(last.slots_before[i], LastTimeNeeded)
               > -1500 * LastTimeNeeded
FullDurationToday ==
    /\ last.added
    /\ \E b \in StudyOf(schedule) :
           /\ b.assignment_id = last.task.id
           /\ b.end_time - b.start_time = LastTimeNeeded * SecondsPerMinute

\* C18: a task placed on one day is offered again on the next: when it is
\* still eligible and a slot of the day's list fits, it receives a study
\* block of its full duration again.
C18_FullDurationAgain ==
    (last.op = "place" /\ last.eligible /\ ~last.raised
       /\ PlacedOnDayBefore /\ SomeSlotFits)
    => FullDurationToday

\* the same, for the tasks that have a fitting slot scored above the
\* initial best score
C18_FullDurationAgainWhenScored ==
    (last.op = "place" /\ last.eligible /\ ~last.raised
       /\ PlacedOnDayBefore /\ SomeFittingSlotAboveInitialBest)
    => FullDurationToday

\* a task with a study block on the day before received its full duration
\* again
C18_SeveralDaysReached ==
    /\ last.op = "place" /\ last.eligible
    /\ PlacedOnDayBefore /\ FullDurationToday

\* the place of a task in the ranker's input
InputIndex(a) == CHOOSE i \in DOMAIN assignments : assignments[i] = a
Ranked == mode \in {"run", "rank"} /\ pc # "start"

\* C19: the ranker returns a permutation of its input ordered by descending
\* urgency score, then by descending priority level, and two tasks with the
\* same urgency and priority keep their input order.
C19_RankedOrder ==
    Ranked =>
        /\ Len(sorted_assignments) = Len(assignments)
        /\ \A a \in { assignments[i] : i \in DOMAIN assignments } :
               Cardinality({ i \in DOMAIN sorted_assignments :
                               sorted_assignments[i] = a })
                 = Cardinality({ i \in DOMAIN assignments :
                                   assignments[i] = a })
        /\ \A i, j \in DOMAIN sorted_assignments :
               i < j =>
                   LET a == sorted_assignments[i]
                       b == sorted_assignments[j]
                       ua == UrgencyScore2(a, now)
                       ub == UrgencyScore2(b, now)
                       pa == PriorityOrder(a.priority)
                       pb == PriorityOrder(b.priority)
                   IN /\ ua >= ub
                      /\ ua = ub => pa >= pb
                      /\ (ua = ub /\ pa = pb) => InputIndex(a) < InputIndex(b)

\* a ranking that moved a task forward past another one, of two tasks with
\* the same urgency score and different priorities
C19_Witness ==
    /\ mode = "rank" /\ pc = "done"
    /\ Len(assignments) = 2
    /\ sorted_assignments # assignments
    /\ UrgencyScore2(assignments[1], now) = UrgencyScore2(assignments[2], now)
    /\ UrgencyScore2(assignments[1], now) > 0

\* two tasks with the same urgency score and the same priority were ranked
C19_FullTieReached ==
    /\ mode = "rank" /\ pc = "done"
    /\ Len(assignments) = 2
    /\ UrgencyScore2(assignments[1], now) = UrgencyScore2(assignments[2], now)
    /\ assignments[1].priority = assignments[2].priority

\* twice the urgency score as the specification gives it
C20_Days(a) == Max((a.due_date - now) \div 86400, 0)
C20_Weight(a) ==
    CASE a.priority = "low" -> 1 [] a.priority = "medium" -> 2
      [] a.priority = "high" -> 3 [] a.priority = "urgent" -> 4
C20_Score2(a) ==
    IF a.due_date = NoDue THEN 0
    ELSE IF C20_Days(a) = 0 THEN 20
    ELSE C20_Weight(a) * (IF C20_Days(a) <= 3 THEN 6
                          ELSE IF C20_Days(a) <= 7 THEN 4
                          ELSE IF C20_Days(a) <= 14 THEN 3
                          ELSE 2)

\* C20: the urgency score is 0 without a due date, 10.0 when the whole days
\* until due (clamped at 0) are 0, so also for an overdue task, and
\* otherwise the priority weight 1/2/3/4 times 3.0 for <= 3 days, 2.0 for
\* <= 7, 1.5 for <= 14 and 1.0 beyond.
C20_UrgencyScore ==
    last.op = "urgency_score" => last.ret2 = C20_Score2(last.task)

\* the score 10.0 was read for a low-priority task that is overdue
C20_Witness ==
    /\ last.op = "urgency_score"
    /\ last.task.due_date # NoDue /\ last.task.due_date < now
    /\ last.task.priority = "low"
    /\ last.ret2 = 20

\* the installer has just returned for the day of the container
Installed == last.op = "add_fixed_blocks" /\ pc # "raised"

\* what the installer is asked to put into the day's container, in input
\* order: the class blocks of the day as the caller built them, then the
\* work shifts of the day as fixed work blocks
ShiftBlocks ==
    [i \in DOMAIN work_shifts |->
        [work_shifts[i] EXCEPT !.start_time = @] @@
        [block_type |-> "work", is_fixed |-> TRUE, assignment_id |-> NoId]]
Commitments == class_schedule \o ShiftBlocks
OnTargetDate(b) == b.start_time \div 86400 = schedule.date \div 86400
BlocksOverlap(a, b) ==
    a.start_time < b.end_time /\ a.end_time > b.start_time

\* the commitments of the day kept one after the other, each unless it
\* overlaps one kept before it
RECURSIVE KeptCommitments(_, _)
KeptCommitments(k, kept) ==
    IF k > Len(Commitments) THEN kept
    ELSE LET c == Commitments[k]
         IN KeptCommitments(
                k + 1,
                IF OnTargetDate(c)
                     /\ \A j \in DOMAIN kept : ~BlocksOverlap(c, kept[j])
                THEN Append(kept, c) ELSE kept)

\* C21: after the installer has run for a date, every block of the container
\* is fixed and starts on that date, every class block and work shift of
\* that date that overlaps no block installed before it is present, and
\* those of other dates are absent.
C21_InstalledFixedOfTheDay ==
    Installed =>
        /\ \A b \in Blocks(schedule) : b.is_fixed /\ OnTargetDate(b)
        /\ \A k \in DOMAIN Commitments :
               LET c == Commitments[k]
               IN /\ (OnTargetDate(c)
                        /\ \A b \in Blocks(schedule) :
                               b # c => ~BlocksOverlap(c, b))
                      => \E b \in Blocks(schedule) :
                             /\ b.start_time = c.start_time
                             /\ b.end_time = c.end_time
                             /\ b.block_type = c.block_type
                  /\ ~OnTargetDate(c) => c \notin Blocks(schedule)

\* the same without the fixed flag of the blocks
C21_InstalledOfTheDay ==
    Installed =>
        /\ \A b \in Blocks(schedule) : OnTargetDate(b)
        /\ \A k \in DOMAIN Commitments :
               LET c == Commitments[k]
               IN /\ (OnTargetDate(c)
                        /\ \A b \in Blocks(schedule) :
                               b # c => ~BlocksOverlap(c, b))
                      => c \in Blocks(schedule)
                  /\ ~OnTargetDate(c) => c \notin Blocks(schedule)

\* C22: fixed blocks are installed in input order, class blocks first and
\* work shifts after them; of two overlapping commitments of the day the one
\* installed earlier stays and the later one is refused, without raising and
\* without changing the container.
C22_InstallOrder ==
    Installed => schedule.time_blocks = KeptCommitments(1, << >>)

\* a work shift of the day was refused because a class block installed
\* before it overlaps it, and a class block after that one was installed
C22_Witness ==
    /\ Installed
    /\ \E i \in DOMAIN ShiftBlocks :
           /\ OnTargetDate(ShiftBlocks[i])
           /\ ShiftBlocks[i] \notin Blocks(schedule)
           /\ \E b \in Blocks(schedule) :
                  b.block_type = "class" /\ BlocksOverlap(ShiftBlocks[i], b)
    /\ Len(schedule.time_blocks) >= 2

\* every block there is: in a container, or handed in by the caller
ExistingBlocks ==
    UNION { Blocks(s) : s \in AllSchedules }
        \cup { class_schedule[i] : i \in DOMAIN class_schedule }

C24_InputsNotMutated ==
    [][mode = "run" =>
          /\ assignments' = assignments
          /\ class_schedule' = class_schedule
          /\ work_shifts' = work_shifts]_vars

\* a finished run that ranked the caller's tasks into another order,
\* installed a class block of the caller and placed a study block
C24_Witness ==
    /\ mode = "run" /\ pc = "done"
    /\ Len(assignments) = 2 /\ sorted_assignments # assignments
    /\ \E d \in DOMAIN schedules :
           /\ \E i \in DOMAIN class_schedule :
                  class_schedule[i] \in Blocks(schedules[d])
           /\ StudyOf(schedules[d]) # {}

\* the daily window of a container
DayStart(s) == (s.date \div 86400) * 86400 + constraints.start_time
DayEnd(s) == (s.date \div 86400) * 86400 + constraints.end_time

\* C25: every study block of a day create_schedule has finished lies inside
\* the day's window: it starts at or after the start-of-day time and ends at
\* or before the end-of-day time of the container's date.
C25_StudyInsideWindow ==
    mode = "run" =>
        \A d \in DOMAIN schedules :
            \A b \in StudyOf(schedules[d]) :
                /\ b.start_time >= DayStart(schedules[d])
                /\ b.end_time <= DayEnd(schedules[d])

\* the same for the days that hold no block ending before the start-of-day
\* time
C25_StudyInsideWindowWithoutEarlyBlock ==
    mode = "run" =>
        \A d \in DOMAIN schedules :
            (\A f \in Blocks(schedules[d]) :
                 f.end_time >= DayStart(schedules[d]))
            => \A b \in StudyOf(schedules[d]) :
                   /\ b.start_time >= DayStart(schedules[d])
                   /\ b.end_time <= DayEnd(schedules[d])

\* C26: every study block of a day create_schedule has finished lasts at
\* least the minimum and at most the maximum session length.
C26_SessionLength ==
    mode = "run" =>
        \A d \in DOMAIN schedules :
            \A b \in StudyOf(schedules[d]) :
                /\ b.end_time - b.start_time
                       >= constraints.min_study_session * SecondsPerMinute
                /\ b.end_time - b.start_time
                       <= constraints.max_study_session * SecondsPerMinute

\* the blocks the installer adds, and the containers of a run
FixedCommitment(b) == b.is_fixed \/ b.block_type \in {"class", "work"}
RunSchedules ==
    IF mode = "run" THEN AllSchedules ELSE {}

\* C27: within each day the phases run in a fixed order on the day's
\* container: every fixed block is added before any study block and every
\* study block before any break block, so the installer meets no study or
\* break block and the placer meets no break block.
C27_PhaseOrder ==
    /\ \A s \in RunSchedules :
           \A i, j \in DOMAIN s.time_blocks :
               i < j =>
                   /\ FixedCommitment(s.time_blocks[j])
                          => FixedCommitment(s.time_blocks[i])
                   /\ s.time_blocks[j].block_type = "study"
                          => s.time_blocks[i].block_type # "break"
    /\ (mode = "run" /\ last.op = "add_fixed_blocks") =>
           StudyOf(schedule) = {} /\ BreaksOf(schedule) = {}
    /\ (mode = "run" /\ pc \in {"slots", "place"}) => BreaksOf(schedule) = {}
    /\ (mode = "run" /\ last.op = "place") => BreaksOf(schedule) = {}

\* the second day of a run has its fixed blocks installed after the first
\* day received fixed blocks, study blocks and a break
C27_Witness ==
    /\ mode = "run" /\ last.op = "add_fixed_blocks" /\ day = 1
    /\ schedule.time_blocks # << >>
    /\ \E b \in Blocks(schedules[1]) : FixedCommitment(b)
    /\ StudyOf(schedules[1]) # {} /\ BreaksOf(schedules[1]) # {}

\* C28: for inputs that satisfy the data-model invariants (effort and
\* preparation durations non-negative, a total time needed of 0 included)
\* create_schedule returns without raising.
C28_NeverRaises ==
    (mode = "run"
       /\ \A i \in DOMAIN assignments :
              /\ assignments[i].estimated_duration >= 0
              /\ assignments[i].preparation_time >= 0
       /\ constraints.break_duration >= 0)
    => pc # "raised"

\* the same for the runs whose tasks all need more than 0 minutes
C28_NeverRaisesWithoutZeroTask ==
    (mode = "run"
       /\ \A i \in DOMAIN assignments :
              assignments[i].estimated_duration
                  + assignments[i].preparation_time > 0)
    => pc # "raised"

\* C29: every study block placed for a task that has a due timestamp ends
\* no later than that timestamp.
C29_StudyEndsBeforeDue ==
    mode = "run" =>
        \A s \in AllSchedules :
            \A b \in StudyOf(s) :
                \A i \in DOMAIN assignments :
                    (assignments[i].id = b.assignment_id
                       /\ assignments[i].due_date # NoDue)
                    => b.end_time <= assignments[i].due_date

\* what the code does check: the study block starts on a day that is not
\* after the day of the due timestamp
C29_StudyNotAfterDueDay ==
    mode = "run" =>
        \A s \in AllSchedules :
            \A b \in StudyOf(s) :
                \A i \in DOMAIN assignments :
                    (assignments[i].id = b.assignment_id
                       /\ assignments[i].due_date # NoDue)
                    => s.date \div 86400
                           <= assignments[i].due_date \div 86400

\* the places of the ranker's input that hold tasks of one priority, both
\* with a due date, the first due in no more whole days than the second
SoonerSamePriority(i, j) ==
    /\ assignments[i].priority = assignments[j].priority
    /\ assignments[i].due_date # NoDue /\ assignments[j].due_date # NoDue
    /\ C20_Days(assignments[i]) <= C20_Days(assignments[j])
RankOf(a) == CHOOSE k \in DOMAIN sorted_assignments : sorted_assignments[k] = a

\* C30: for one priority level the urgency score does not grow with the
\* days until due: a task due sooner never scores lower than a task of the
\* same priority due later, and a task due today is never ranked behind a
\* task of the same priority due on a later day.
C30_UrgencyMonotone ==
    (mode = "rank" /\ pc = "done") =>
        \A i, j \in DOMAIN assignments :
            SoonerSamePriority(i, j) =>
                /\ UrgencyScore2(assignments[i], now)
                       >= UrgencyScore2(assignments[j], now)
                /\ (C20_Days(assignments[i]) = 0
                      /\ C20_Days(assignments[j]) > 0)
                   => RankOf(assignments[i]) < RankOf(assignments[j])

\* the same for the priorities low, medium and high
C30_UrgencyMonotoneBelowUrgent ==
    (mode = "rank" /\ pc = "done") =>
        \A i, j \in DOMAIN assignments :
            (SoonerSamePriority(i, j) /\ assignments[i].priority # "urgent") =>
                /\ UrgencyScore2(assignments[i], now)
                       >= UrgencyScore2(assignments[j], now)
                /\ (C20_Days(assignments[i]) = 0
                      /\ C20_Days(assignments[j]) > 0)
                   => RankOf(assignments[i]) < RankOf(assignments[j])

====
